---- MODULE Spec2Model ----
(***************************************************************************)
(* The rules engine of the Go game: game_logic.py, class GameLogic.         *)
(* Every method of GameLogic is an operator from the object's fields (a     *)
(* record `s`) to the fields after the call, the signals it emitted and the *)
(* statement that ended it; the three public methods are the actions of the *)
(* specification Spec.                                                     *)
(* The widget that owns the engine: board.py, class Board.  Its methods are *)
(* operators on a record `b` of the widget's fields, among them gameLogic,  *)
(* the fields of its engine; its event handlers are the actions of the      *)
(* specification BoardSpec.                                                 *)
(***************************************************************************)
EXTENDS Integers, Sequences, FiniteSets, TLC

\* GameLogic(width, height) is explored for every board of at most MaxCells
\* cells, and a game for at most MaxMoves placements that pass the
\* preconditions of handleMove.
MaxCells == 6
MaxMoves == 5

\* A Board is explored for at most MaxClicks clicks that the engine takes as
\* placements passing its preconditions.
MaxClicks == 5

\* board.py: counter = 60
CountdownStart == 60

VARIABLES
    width,                \* self.width
    height,               \* self.height
    boardArray,           \* self.boardArray: cell -> None | "B" | "W"
    currentPlayer,        \* self.currentPlayer: "B" | "W"
    blackCaptures,        \* self.blackCaptures
    whiteCaptures,        \* self.whiteCaptures
    blackTerritory,       \* self.blackTerritory
    whiteTerritory,       \* self.whiteTerritory
    gameOver,             \* self.gameOver
    previousBoardStates,  \* self.previousBoardStates: list of grids
    consecutivePasses,    \* self.consecutivePasses: <<>> while the attribute
                          \* does not exist, <<n>> once it holds n
    positions,            \* history variable: the grid at the start of the
                          \* game and after each accepted placement since
    beforeLastMove,       \* history variable: the grid as the most recent
                          \* accepted placement found it
    isStarted,            \* Board.isStarted
    counter,              \* Board.counter
    timerActive,          \* Board.timer is running
    board_currentPlayer,  \* Board.currentPlayer: "Black" | "White"
    board_blackCaptures,  \* Board.blackCaptures
    board_whiteCaptures,  \* Board.whiteCaptures
    board_blackTerritory, \* Board.blackTerritory
    board_whiteTerritory  \* Board.whiteTerritory

vars == <<width, height, boardArray, currentPlayer, blackCaptures,
          whiteCaptures, blackTerritory, whiteTerritory, gameOver,
          previousBoardStates, consecutivePasses, positions,
          beforeLastMove, isStarted, counter, timerActive,
          board_currentPlayer, board_blackCaptures, board_whiteCaptures,
          board_blackTerritory, board_whiteTerritory>>

\* The fields of the Board widget.
boardVars == <<isStarted, counter, timerActive, board_currentPlayer,
               board_blackCaptures, board_whiteCaptures,
               board_blackTerritory, board_whiteTerritory>>

None == "None"
Cells == (0 .. (height - 1)) \X (0 .. (width - 1))

\* [[None] * self.width for _ in range(self.height)]
EmptyBoard == [p \in Cells |-> None]

\* 0 <= row < self.height and 0 <= col < self.width
InBounds(row, col) == 0 <= row /\ row < height /\ 0 <= col /\ col < width

\* Variant of the neighbour list: the neighbour to the right is left out.
NeighborList_NoRight(p) ==
    << <<p[1] - 1, p[2]>>, <<p[1] + 1, p[2]>>, <<p[1], p[2] - 1>> >>

\* [(r-1, c), (r+1, c), (r, c-1), (r, c+1)]
NeighborList(p) ==
    << <<p[1] - 1, p[2]>>, <<p[1] + 1, p[2]>>,
       <<p[1], p[2] - 1>>, <<p[1], p[2] + 1>> >>

\* for r in range(self.height): for c in range(self.width): the i-th cell
CellAt(i) == <<(i - 1) \div width, (i - 1) % width>>

\* The object's fields, as the record the method operators work on.  `out`
\* collects the signals emitted, `outcome` names the statement that ended the
\* call (a return, or the exception raised) and `ret` holds the value a
\* helper returns.  (The size, which no method changes, is read from the
\* variables width and height.)
Self ==
    [boardArray |-> boardArray, currentPlayer |-> currentPlayer,
     blackCaptures |-> blackCaptures, whiteCaptures |-> whiteCaptures,
     blackTerritory |-> blackTerritory, whiteTerritory |-> whiteTerritory,
     gameOver |-> gameOver, previousBoardStates |-> previousBoardStates,
     consecutivePasses |-> consecutivePasses,
     out |-> <<>>, outcome |-> "running", ret |-> 0]

Emit(s, signal) == [s EXCEPT !.out = Append(@, signal)]

\* The fields a call left, as the next call finds them.
Then(s) == [s EXCEPT !.out = <<>>, !.outcome = "running", !.ret = 0]

----------------------------------------------------------------------------
\* _get_group_and_liberties: the neighbour loop of one popped stone
RECURSIVE ScanNeighbors(_, _, _, _, _)
ScanNeighbors(b, color, nbrs, i, st) ==
    IF i > Len(nbrs) THEN st
    ELSE LET n == nbrs[i] IN
         IF ~InBounds(n[1], n[2])
         THEN ScanNeighbors(b, color, nbrs, i + 1, st)
         ELSE IF b[n] = None
         THEN ScanNeighbors(b, color, nbrs, i + 1,
                            [st EXCEPT !.liberties = @ + 1])
         ELSE IF b[n] = color /\ n \notin st.visited
         THEN ScanNeighbors(b, color, nbrs, i + 1,
                            [st EXCEPT !.visited = @ \cup {n},
                                       !.stack = Append(@, n)])
         ELSE ScanNeighbors(b, color, nbrs, i + 1, st)

\* _get_group_and_liberties: while stack
RECURSIVE GroupLoop(_, _, _)
GroupLoop(b, color, st) ==
    IF st.stack = <<>>
    THEN [group |-> st.group, liberties |-> st.liberties]
    ELSE LET p == st.stack[Len(st.stack)]
             popped == [st EXCEPT !.stack = SubSeq(@, 1, Len(@) - 1),
                                  !.group = Append(@, p)]
         IN GroupLoop(b, color,
                      ScanNeighbors(b, color, NeighborList(p), 1, popped))

_get_group_and_liberties(b, start_row, start_col, color) ==
    GroupLoop(b, color,
              [stack |-> << <<start_row, start_col>> >>,
               visited |-> { <<start_row, start_col>> },
               group |-> <<>>, liberties |-> 0])

\* The cells of a list, as a set.
Range(seq) == {seq[i] : i \in 1 .. Len(seq)}

\* for (gr, gc) in group: self.boardArray[gr][gc] = None
ClearCells(b, group) == [p \in Cells |-> IF p \in Range(group) THEN None ELSE b[p]]


----------------------------------------------------------------------------
\* Variants of the capture test: a group with one liberty left is taken
\* too; no group is ever taken.
GroupIsCaptured_AtMostOne(liberties) == liberties <= 1
GroupIsCaptured_Never(liberties) == liberties < 0

\* _captureOpponents: if liberties == 0
GroupIsCaptured(liberties) == liberties = 0

\* _captureOpponents: the scan over the grid, row by row
RECURSIVE CaptureScan(_, _, _)
CaptureScan(opponent, i, st) ==
    IF i > width * height THEN st
    ELSE LET p == CellAt(i) IN
         IF st.board[p] = opponent /\ p \notin st.visited
         THEN LET g == _get_group_and_liberties(st.board, p[1], p[2], opponent)
                  seen == st.visited \cup Range(g.group)
              IN IF GroupIsCaptured(g.liberties)
                 THEN CaptureScan(opponent, i + 1,
                         [board |-> ClearCells(st.board, g.group),
                          visited |-> seen,
                          captured_stones |-> st.captured_stones + Len(g.group)])
                 ELSE CaptureScan(opponent, i + 1, [st EXCEPT !.visited = seen])
         ELSE CaptureScan(opponent, i + 1, st)

\* self.blackCaptures += n or self.whiteCaptures += n, for the current player
AddCaptures(s, n) ==
    IF s.currentPlayer = "B"
    THEN [s EXCEPT !.blackCaptures = @ + n]
    ELSE [s EXCEPT !.whiteCaptures = @ + n]

CapturesUpdated(s) == <<"capturesUpdated", s.blackCaptures, s.whiteCaptures>>
TerritoryUpdated(s) == <<"territoryUpdated", s.blackTerritory, s.whiteTerritory>>

_captureOpponents(s) ==
    LET opponent == IF s.currentPlayer = "B" THEN "W" ELSE "B"
        scan == CaptureScan(opponent, 1,
                    [board |-> s.boardArray, visited |-> {}, captured_stones |-> 0])
        s1 == [s EXCEPT !.boardArray = scan.board, !.ret = scan.captured_stones]
    IN IF scan.captured_stones > 0
       THEN LET s2 == AddCaptures(s1, scan.captured_stones)
            IN Emit(s2, CapturesUpdated(s2))
       ELSE s1

\* Variant of the snapshot's content: an empty grid, not the grid of the
\* state.
_copyBoard_Blank(s) == EmptyBoard

\* return [row[:] for row in self.boardArray]
_copyBoard(s) == s.boardArray

_isKO(s) ==
    IF Len(s.previousBoardStates) < 1 THEN FALSE
    ELSE LET lastBoardState == s.previousBoardStates[Len(s.previousBoardStates)]
         IN \A p \in Cells : s.boardArray[p] = lastBoardState[p]

_switchPlayer(s) ==
    IF s.currentPlayer = "B"
    THEN Emit([s EXCEPT !.currentPlayer = "W"], <<"currentPlayerChanged", "White">>)
    ELSE Emit([s EXCEPT !.currentPlayer = "B"], <<"currentPlayerChanged", "Black">>)

_updateTerritory(s) ==
    LET s1 == [s EXCEPT !.blackTerritory = 0, !.whiteTerritory = 0]
    IN Emit(s1, TerritoryUpdated(s1))

_emitInitialSignals(s) ==
    Emit(Emit(Emit(s, <<"currentPlayerChanged", "Black">>),
              CapturesUpdated(s)), TerritoryUpdated(s))

----------------------------------------------------------------------------
\* _explore_empty_region: the neighbour loop of one dequeued cell
RECURSIVE RegionNeighbors(_, _, _, _)
RegionNeighbors(b, nbrs, i, st) ==
    IF i > Len(nbrs) THEN st
    ELSE LET n == nbrs[i] IN
         IF InBounds(n[1], n[2]) /\ n \notin st.visited
         THEN IF b[n] = None
              THEN RegionNeighbors(b, nbrs, i + 1,
                       [st EXCEPT !.visited = @ \cup {n},
                                  !.queue = Append(@, n)])
              ELSE RegionNeighbors(b, nbrs, i + 1,
                       [st EXCEPT !.bordering_colors = @ \cup {b[n]}])
         ELSE RegionNeighbors(b, nbrs, i + 1, st)

\* _explore_empty_region: while queue
RECURSIVE RegionLoop(_, _)
RegionLoop(b, st) ==
    IF st.queue = <<>> THEN st
    ELSE LET p == Head(st.queue)
             popped == [st EXCEPT !.queue = Tail(@),
                                  !.region_positions = Append(@, p)]
         IN RegionLoop(b, RegionNeighbors(b, NeighborList(p), 1, popped))

\* Returns the region, the colours that border it and `visited`, which the
\* code updates in place.
_explore_empty_region(b, start_row, start_col, visited) ==
    RegionLoop(b, [queue |-> << <<start_row, start_col>> >>,
                   region_positions |-> <<>>,
                   bordering_colors |-> {},
                   visited |-> visited \cup { <<start_row, start_col>> }])

\* Variant of the test on the bordering colours: any bordering colour will do.
SingleBorderColor_Any(bordering_colors) == bordering_colors # {}

\* _computeTerritory: if len(bordering_colors) == 1
SingleBorderColor(bordering_colors) == Cardinality(bordering_colors) = 1

\* _computeTerritory: the scan over the grid, row by row
RECURSIVE TerritoryScan(_, _, _)
TerritoryScan(b, i, st) ==
    IF i > width * height THEN st
    ELSE LET p == CellAt(i) IN
         IF b[p] = None /\ p \notin st.visited
         THEN LET reg == _explore_empty_region(b, p[1], p[2], st.visited)
                  st1 == [st EXCEPT !.visited = reg.visited]
              IN IF SingleBorderColor(reg.bordering_colors)
                 THEN LET color == CHOOSE x \in reg.bordering_colors : TRUE
                      IN IF color = "B"
                         THEN TerritoryScan(b, i + 1,
                                  [st1 EXCEPT !.blackTerritory =
                                                 @ + Len(reg.region_positions)])
                         ELSE IF color = "W"
                         THEN TerritoryScan(b, i + 1,
                                  [st1 EXCEPT !.whiteTerritory =
                                                 @ + Len(reg.region_positions)])
                         ELSE TerritoryScan(b, i + 1, st1)
                 ELSE TerritoryScan(b, i + 1, st1)
         ELSE TerritoryScan(b, i + 1, st)

_computeTerritory(s) ==
    LET scan == TerritoryScan(s.boardArray, 1,
                    [visited |-> {}, blackTerritory |-> 0, whiteTerritory |-> 0])
        s1 == [s EXCEPT !.blackTerritory = scan.blackTerritory,
                        !.whiteTerritory = scan.whiteTerritory]
    IN Emit(s1, TerritoryUpdated(s1))

\* The message is the f-string's fixed text and the two numbers it prints, in
\* the order it prints them.
_emitFinalResult(s) ==
    LET black_score == s.blackTerritory + s.blackCaptures
        white_score == s.whiteTerritory + s.whiteCaptures
        msg == IF black_score > white_score
               THEN <<"Game Over! Black wins", black_score, white_score>>
               ELSE IF white_score > black_score
               THEN <<"Game Over! White wins", white_score, black_score>>
               ELSE <<"Game Over! It's a tie", black_score, white_score>>
    IN Emit(s, <<"gameOver", msg>>)

----------------------------------------------------------------------------
\* The public interface.

\* Every return of handleMove and passMove is a bare `return` or the end of
\* the body: the value the caller gets is None. `outcome` names the place
\* where the call ended.
Return(s, outcome) == [s EXCEPT !.outcome = outcome, !.ret = None]

\* The call ends in an exception: the caller gets no value, only the
\* exception.
Raise(s, exception) == [s EXCEPT !.outcome = exception, !.ret = exception]

\* self.consecutivePasses is assigned nowhere: the fields resetGame sets do
\* not include it.
resetGame(s) ==
    LET s1 == [s EXCEPT !.boardArray = EmptyBoard,
                        !.currentPlayer = "B",
                        !.blackCaptures = 0,
                        !.whiteCaptures = 0,
                        !.blackTerritory = 0,
                        !.whiteTerritory = 0,
                        !.gameOver = FALSE,
                        !.previousBoardStates = <<>>]
    IN Return(_emitInitialSignals(s1), "reset")

\* Variant of the suicide test: no placement is taken for a suicide.
IsSuicide_Never(liberties, capturedStones) == FALSE

\* handleMove: if liberties == 0 and capturedStones == 0
IsSuicide(liberties, capturedStones) == liberties = 0 /\ capturedStones = 0

\* Variant of the occupied-cell test: the test is missing.
CellTaken_Unchecked(b, row, col) == FALSE

\* handleMove: if self.boardArray[row][col] is not None
CellTaken(b, row, col) == b[<<row, col>>] # None

\* Variant of the snapshot: the new snapshot replaces the stored ones.
SaveBoardState_KeepLast(states, board) == <<board>>

\* handleMove: self.previousBoardStates.append(self._copyBoard())
SaveBoardState(states, board) == Append(states, board)

handleMove(s, row, col) ==
    IF s.gameOver THEN Return(s, "gameOver")
    ELSE IF ~InBounds(row, col) THEN Return(s, "outOfBounds")
    ELSE IF CellTaken(s.boardArray, row, col) THEN Return(s, "occupied")
    ELSE LET s1 == [s EXCEPT !.previousBoardStates =
                                 SaveBoardState(@, _copyBoard(s))]
             s2 == [s1 EXCEPT !.boardArray[<<row, col>>] = s1.currentPlayer]
             s3 == _captureOpponents(s2)
             capturedStones == s3.ret
             own == _get_group_and_liberties(s3.boardArray, row, col,
                                             s3.currentPlayer)
         IN IF IsSuicide(own.liberties, capturedStones)
            THEN Return([s3 EXCEPT !.boardArray = ClearCells(@, own.group)],
                        "suicide")
            ELSE IF _isKO(s3)
            THEN Return([s3 EXCEPT !.boardArray[<<row, col>>] = None,
                                   !.previousBoardStates =
                                       SubSeq(@, 1, Len(@) - 1)],
                        "ko")
            ELSE LET s4 == IF capturedStones > 0
                           THEN LET c == AddCaptures(s3, capturedStones)
                                IN Emit(c, CapturesUpdated(c))
                           ELSE s3
                     s5 == _updateTerritory(s4)
                 IN Return(_switchPlayer(s5), "accepted")

\* self.consecutivePasses += 1 reads the attribute first: while it does not
\* exist the read raises AttributeError and the call ends there.
passMove(s) ==
    IF s.gameOver THEN Return(s, "gameOver")
    ELSE IF s.consecutivePasses = <<>> THEN Raise(s, "AttributeError")
    ELSE LET s1 == [s EXCEPT !.consecutivePasses = <<@[1] + 1>>]
         IN IF s1.consecutivePasses[1] >= 2
            THEN Return(_emitFinalResult(
                            _computeTerritory([s1 EXCEPT !.gameOver = TRUE])),
                        "ended")
            ELSE Return(_switchPlayer(s1), "passed")

----------------------------------------------------------------------------
\* board.py, class Board.  The slots connected to the engine's signals.

onCurrentPlayerChanged(b, player) == [b EXCEPT !.currentPlayer = player]

\* Variant of the slot: the pair is stored the other way round.
onCapturesUpdated_Swapped(b, blackCaps, whiteCaps) ==
    [b EXCEPT !.blackCaptures = whiteCaps, !.whiteCaptures = blackCaps]

onCapturesUpdated(b, blackCaps, whiteCaps) ==
    [b EXCEPT !.blackCaptures = blackCaps, !.whiteCaptures = whiteCaps]

onTerritoryUpdated(b, blackTerr, whiteTerr) ==
    [b EXCEPT !.blackTerritory = blackTerr, !.whiteTerritory = whiteTerr]

onGameOver(b, resultMsg) == [b EXCEPT !.isStarted = FALSE, !.timerActive = FALSE]

\* initBoard: the four connect() calls, as the slot each signal runs.
Slot(b, signal) ==
    IF signal[1] = "currentPlayerChanged" THEN onCurrentPlayerChanged(b, signal[2])
    ELSE IF signal[1] = "capturesUpdated" THEN onCapturesUpdated(b, signal[2], signal[3])
    ELSE IF signal[1] = "territoryUpdated" THEN onTerritoryUpdated(b, signal[2], signal[3])
    ELSE onGameOver(b, signal[2])

\* The slots run inside emit(), in the order of the emissions; no slot reads
\* or writes a field of the engine, so running them after the engine's
\* method leaves the same fields.
RECURSIVE Deliver(_, _, _)
Deliver(b, out, i) ==
    IF i > Len(out) THEN b ELSE Deliver(Slot(b, out[i]), out, i + 1)

\* A call self.gameLogic.method() that left the engine as s.
Called(b, s) == Deliver([b EXCEPT !.gameLogic = s], s.out, 1)

\* Board.resetGame; self.update() only schedules a repaint.
Board_resetGame(b) ==
    [Called(b, resetGame(Then(b.gameLogic))) EXCEPT !.counter = CountdownStart]

start(b) ==
    [Board_resetGame([b EXCEPT !.isStarted = TRUE]) EXCEPT !.timerActive = TRUE]

\* mousePressEvent, from the row and column it computes from the position of
\* the click; clickLocationSignal goes to a label of the score board.
mousePressEvent(b, row, col) ==
    IF ~b.isStarted THEN b
    ELSE IF InBounds(row, col)
    THEN Called(b, handleMove(Then(b.gameLogic), row, col))
    ELSE b

\* Board.passMove: an exception of the engine's passMove leaves through it.
Board_passMove(b) ==
    IF ~b.isStarted THEN b
    ELSE Called(b, passMove(Then(b.gameLogic)))

\* timerEvent for the board's own timer; updateTimerSignal goes to a label of
\* the score board.
timerEvent(b) ==
    IF b.counter = 0
    THEN [b EXCEPT !.timerActive = FALSE]
    ELSE [b EXCEPT !.counter = @ - 1]

\* The widget in the current state.
BoardSelf ==
    [isStarted |-> isStarted, counter |-> counter, timerActive |-> timerActive,
     currentPlayer |-> board_currentPlayer,
     blackCaptures |-> board_blackCaptures,
     whiteCaptures |-> board_whiteCaptures,
     blackTerritory |-> board_blackTerritory,
     whiteTerritory |-> board_whiteTerritory,
     gameLogic |-> Self]

\* GameLogic(width, height) as its constructor leaves it, no signal connected
\* yet.
NewGameLogic ==
    [boardArray |-> EmptyBoard, currentPlayer |-> "B",
     blackCaptures |-> 0, whiteCaptures |-> 0,
     blackTerritory |-> 0, whiteTerritory |-> 0,
     gameOver |-> FALSE, previousBoardStates |-> <<>>,
     consecutivePasses |-> <<>>,
     out |-> <<>>, outcome |-> "running", ret |-> 0]

\* Board.__init__: initBoard (timer, isStarted, engine, connections, start),
\* then the five fields of the overlay.  The overlay fields do not exist
\* until start() has the slots set them.
NewBoard ==
    LET b0 == [isStarted |-> FALSE, counter |-> CountdownStart,
               timerActive |-> FALSE,
               currentPlayer |-> None, blackCaptures |-> None,
               whiteCaptures |-> None, blackTerritory |-> None,
               whiteTerritory |-> None, gameLogic |-> NewGameLogic]
    IN [start(b0) EXCEPT !.currentPlayer = "Black",
                         !.blackCaptures = 0, !.whiteCaptures = 0,
                         !.blackTerritory = 0, !.whiteTerritory = 0]

\* The widget's fields become those the handler leaves.
BoardBecomes(b) ==
    /\ isStarted' = b.isStarted
    /\ counter' = b.counter
    /\ timerActive' = b.timerActive
    /\ board_currentPlayer' = b.currentPlayer
    /\ board_blackCaptures' = b.blackCaptures
    /\ board_whiteCaptures' = b.whiteCaptures
    /\ board_blackTerritory' = b.blackTerritory
    /\ board_whiteTerritory' = b.whiteTerritory

\* The widget's fields are those of b.
BoardIs(b) ==
    /\ isStarted = b.isStarted
    /\ counter = b.counter
    /\ timerActive = b.timerActive
    /\ board_currentPlayer = b.currentPlayer
    /\ board_blackCaptures = b.blackCaptures
    /\ board_whiteCaptures = b.whiteCaptures
    /\ board_blackTerritory = b.blackTerritory
    /\ board_whiteTerritory = b.whiteTerritory

----------------------------------------------------------------------------
\* The fields of the object, without the bookkeeping of a call.
Fields(s) ==
    [boardArray |-> s.boardArray, currentPlayer |-> s.currentPlayer,
     blackCaptures |-> s.blackCaptures, whiteCaptures |-> s.whiteCaptures,
     blackTerritory |-> s.blackTerritory, whiteTerritory |-> s.whiteTerritory,
     gameOver |-> s.gameOver, previousBoardStates |-> s.previousBoardStates,
     consecutivePasses |-> s.consecutivePasses]

\* The object's fields become those the method leaves.
Becomes(s) ==
    /\ boardArray' = s.boardArray
    /\ currentPlayer' = s.currentPlayer
    /\ blackCaptures' = s.blackCaptures
    /\ whiteCaptures' = s.whiteCaptures
    /\ blackTerritory' = s.blackTerritory
    /\ whiteTerritory' = s.whiteTerritory
    /\ gameOver' = s.gameOver
    /\ previousBoardStates' = s.previousBoardStates
    /\ consecutivePasses' = s.consecutivePasses
    /\ UNCHANGED <<width, height>>

\* The (row, col) a caller may pass: every cell, and one step outside the
\* grid on each side.
MoveRows == -1 .. height
MoveCols == -1 .. width

\* GameLogic(width, height): __init__ stores the size and calls resetGame on
\* an object that has no other attribute yet.
Init ==
    /\ width \in 1 .. MaxCells
    /\ height \in {h \in 1 .. MaxCells : width * h <= MaxCells}
    /\ boardArray = EmptyBoard
    /\ currentPlayer = "B"
    /\ blackCaptures = 0
    /\ whiteCaptures = 0
    /\ blackTerritory = 0
    /\ whiteTerritory = 0
    /\ gameOver = FALSE
    /\ previousBoardStates = <<>>
    /\ consecutivePasses = <<>>
    /\ positions = <<EmptyBoard>>
    /\ beforeLastMove = EmptyBoard
    /\ BoardIs(NewBoard)

\* The history variables after a call of handleMove that ended as s.
Recorded(s) ==
    /\ positions' = IF s.outcome = "accepted"
                    THEN Append(positions, s.boardArray)
                    ELSE positions
    /\ beforeLastMove' = IF s.outcome = "accepted"
                         THEN boardArray
                         ELSE beforeLastMove

Placement(s) == Becomes(s) /\ Recorded(s)

\* In Spec the engine's methods are called directly: the widget's fields
\* stay as its constructor left them.
HandleMove ==
    /\ Len(previousBoardStates) < MaxMoves
    /\ \E row \in MoveRows, col \in MoveCols :
           Placement(handleMove(Self, row, col))
    /\ UNCHANGED boardVars

PassMove ==
    /\ Becomes(passMove(Self))
    /\ UNCHANGED <<positions, beforeLastMove>>
    /\ UNCHANGED boardVars

ResetGame ==
    /\ Becomes(resetGame(Self))
    /\ positions' = <<EmptyBoard>>
    /\ beforeLastMove' = EmptyBoard
    /\ UNCHANGED boardVars

Next == HandleMove \/ PassMove \/ ResetGame

Spec == Init /\ [][Next]_vars

----------------------------------------------------------------------------
\* The Board: Board(parent) builds GameLogic(boardWidth, boardHeight) with
\* boardWidth = boardHeight, so the grid is square.
BoardInit ==
    /\ width \in {w \in 1 .. MaxCells : w * w <= MaxCells}
    /\ height = width
    /\ boardArray = EmptyBoard
    /\ currentPlayer = "B"
    /\ blackCaptures = 0
    /\ whiteCaptures = 0
    /\ blackTerritory = 0
    /\ whiteTerritory = 0
    /\ gameOver = FALSE
    /\ previousBoardStates = <<>>
    /\ consecutivePasses = <<>>
    /\ positions = <<EmptyBoard>>
    /\ beforeLastMove = EmptyBoard
    /\ BoardIs(NewBoard)

\* The handler left the widget as b, its engine included.
Handled(b) == Becomes(b.gameLogic) /\ BoardBecomes(b)

\* A click, at the row and column mousePressEvent computes for it.
MousePressEvent ==
    /\ Len(previousBoardStates) < MaxClicks
    /\ \E row \in MoveRows, col \in MoveCols :
           /\ Handled(mousePressEvent(BoardSelf, row, col))
           /\ Recorded(mousePressEvent(BoardSelf, row, col).gameLogic)

\* The Pass button: ScoreBoard.onPassClicked calls board.passMove().
PassClicked ==
    /\ Handled(Board_passMove(BoardSelf))
    /\ UNCHANGED <<positions, beforeLastMove>>

\* The Reset button: ScoreBoard.onResetClicked calls board.resetGame().
ResetClicked ==
    /\ Handled(Board_resetGame(BoardSelf))
    /\ positions' = <<EmptyBoard>>
    /\ beforeLastMove' = EmptyBoard

\* The timer fires while it runs.
TimerEvent ==
    /\ timerActive
    /\ Handled(timerEvent(BoardSelf))
    /\ UNCHANGED <<positions, beforeLastMove>>

BoardNext == MousePressEvent \/ PassClicked \/ ResetClicked \/ TimerEvent

BoardSpec == BoardInit /\ [][BoardNext]_vars

----------------------------------------------------------------------------
\* The notions of the rules, stated on a grid without the code's traversals.

Opponent(player) == IF player = "B" THEN "W" ELSE "B"

Adjacent(p, q) ==
    \/ p[1] = q[1] /\ (p[2] = q[2] + 1 \/ q[2] = p[2] + 1)
    \/ p[2] = q[2] /\ (p[1] = q[1] + 1 \/ q[1] = p[1] + 1)

Stones(b, color) == {q \in Cells : b[q] = color}

\* The least set of cells holding `color` that contains S and is closed under
\* adjacency.
RECURSIVE Closure(_, _, _)
Closure(b, color, S) ==
    LET T == S \cup {q \in Stones(b, color) : \E x \in S : Adjacent(x, q)}
    IN IF T = S THEN S ELSE Closure(b, color, T)

\* The group of the stone at p.
GroupOf(b, p) == Closure(b, b[p], {p})

HasLiberty(b, G) == \E x \in G, q \in Cells : Adjacent(x, q) /\ b[q] = None

\* The stones of `color` whose group has no liberty.
DeadStones(b, color) == {q \in Stones(b, color) : ~HasLiberty(b, GroupOf(b, q))}

\* The grid with the current player's stone put on the empty cell p.
Placed(p) == [boardArray EXCEPT ![p] = currentPlayer]

\* The cells a placement passes the preconditions on.
Playable == IF gameOver THEN {} ELSE {p \in Cells : boardArray[p] = None}

\* The stones the placement at p takes off the grid under the rules.
Taken(p) == DeadStones(Placed(p), Opponent(currentPlayer))

\* The grid the placement at p leaves under the rules, if it is accepted.
Resulting(p) == [q \in Cells |-> IF q \in Taken(p) THEN None ELSE Placed(p)[q]]

\* The call handleMove(p) in the current state.
Move(p) == handleMove(Self, p[1], p[2])

\* The capture step of handleMove(p): _captureOpponents on the grid with the
\* stone placed.
Capture(p) == _captureOpponents([Self EXCEPT !.boardArray = Placed(p)])

CapturesOf(s, player) == IF player = "B" THEN s.blackCaptures ELSE s.whiteCaptures

----------------------------------------------------------------------------
\* C1: For every board and every placement that passes the preconditions,
\* capture resolution removes exactly the stones of the opponent groups that
\* have no liberty once the stone is placed: all of them, no opponent stone
\* of a group with a liberty, and no stone of the mover.
C1_CaptureExact ==
    \A p \in Playable :
        LET taken == Taken(p)
            after == Capture(p).boardArray
        IN \A q \in Cells :
               after[q] = IF q \in taken THEN None ELSE Placed(p)[q]

\* A placement takes a group of two or more stones while another opponent
\* group, which keeps a liberty, stays.
C1_Witness ==
    \E p \in Playable :
        /\ \E q \in Taken(p) : Cardinality(GroupOf(Placed(p), q)) >= 2
        /\ Stones(Capture(p).boardArray, Opponent(currentPlayer)) # {}
        /\ Capture(p).ret = Cardinality(Taken(p))

\* C2: After an accepted placement that removes k opponent stones, the
\* mover's capture counter is exactly k larger than before the call and the
\* other player's counter is unchanged.
C2_CounterGrowsByCaptured ==
    \A p \in Playable :
        LET r == Move(p)
            k == Cardinality(Stones(boardArray, Opponent(currentPlayer)))
                 - Cardinality(Stones(r.boardArray, Opponent(currentPlayer)))
        IN r.boardArray[p] = currentPlayer =>
               /\ CapturesOf(r, currentPlayer) = CapturesOf(Self, currentPlayer) + k
               /\ CapturesOf(r, Opponent(currentPlayer))
                      = CapturesOf(Self, Opponent(currentPlayer))

\* The placement at p is a suicide under the rules: it takes no opponent
\* stone and leaves its own group without a liberty.
IsSuicidePlacement(p) ==
    /\ Taken(p) = {}
    /\ ~HasLiberty(Placed(p), GroupOf(Placed(p), p))

\* C3: A suicide placement is rejected and leaves the grid cell for cell as
\* it was before the call, also when the placed stone joins a group of the
\* mover; the current player and both capture counters are unchanged.
C3_SuicideLeavesGrid ==
    \A p \in Playable :
        IsSuicidePlacement(p) =>
            LET r == Move(p)
            IN /\ r.boardArray = boardArray
               /\ r.currentPlayer = currentPlayer
               /\ r.blackCaptures = blackCaptures
               /\ r.whiteCaptures = whiteCaptures

C5_KoRejected ==
    \A p \in Playable :
        (Len(positions) >= 2 /\ Resulting(p) = beforeLastMove) =>
            /\ Move(p).boardArray[p] = None
            /\ Move(p).currentPlayer = currentPlayer

\* C6: handleMove when the game is over, with (row, col) outside the grid or
\* on a cell that is not empty changes no field of the object (grid, current
\* player, capture counters, territory, pass counter, gameOver, history) and
\* emits no signal.
C6_RejectedIsNoOp ==
    \A row \in MoveRows, col \in MoveCols :
        (gameOver \/ <<row, col>> \notin Cells \/ boardArray[<<row, col>>] # None) =>
            LET r == handleMove(Self, row, col)
            IN /\ Fields(r) = Fields(Self)
               /\ r.out = <<>>

\* A stone is on the board, so that calls on an occupied cell and calls
\* outside the grid are both made and both end at their own return.
C6_Witness ==
    /\ \E p \in Cells : boardArray[p] # None /\ Move(p).outcome = "occupied"
    /\ \E row \in MoveRows, col \in MoveCols :
           handleMove(Self, row, col).outcome = "outOfBounds"

\* The game as the constructor or resetGame leaves it, no placement made.
FreshGame ==
    /\ boardArray = EmptyBoard
    /\ previousBoardStates = <<>>
    /\ positions = <<EmptyBoard>>
    /\ currentPlayer = "B"
    /\ ~gameOver

Signals(s) == {s.out[i][1] : i \in 1 .. Len(s.out)}

\* C7: From a freshly constructed or reset game, two passes with no accepted
\* placement between them end the game: the first pass completes normally
\* and switches the current player, the second sets gameOver, computes the
\* territory and emits the gameOver message.
C7_TwoPassesEndGame ==
    FreshGame =>
        LET first == passMove(Self)
            second == passMove(Then(first))
        IN /\ first.outcome = "passed"
           /\ first.currentPlayer = Opponent(currentPlayer)
           /\ ~first.gameOver
           /\ second.gameOver
           /\ {"territoryUpdated", "gameOver"} \subseteq Signals(second)

\* C8: An accepted placement resets consecutivePasses to 0, so that a pass,
\* an accepted placement and another pass do not end the game.
C8_PlacementResetsPasses ==
    \A p \in Playable :
        LET placed == Move(p)
            passed == passMove(Self)
            between == handleMove(Then(passed), p[1], p[2])
        IN /\ placed.boardArray[p] = currentPlayer =>
                  placed.consecutivePasses = <<0>>
           /\ between.boardArray[p] # None =>
                  ~passMove(Then(between)).gameOver

\* C9: After every accepted placement and after every accepted pass (a pass
\* in a game that is not over) the current player is the opposite colour
\* from before the call; after every rejected placement it is the same.
C9_PlayerAlternates ==
    /\ \A row \in MoveRows, col \in MoveCols :
           LET r == handleMove(Self, row, col)
               stays == <<row, col>> \in Playable
                          /\ r.boardArray[<<row, col>>] = currentPlayer
           IN r.currentPlayer =
                  IF stays THEN Opponent(currentPlayer) ELSE currentPlayer
    /\ ~gameOver => passMove(Self).currentPlayer = Opponent(currentPlayer)

\* The placement half of the alternation, on its own.
PlacementsAlternate ==
    \A row \in MoveRows, col \in MoveCols :
        LET r == handleMove(Self, row, col)
            stays == <<row, col>> \in Playable
                       /\ r.boardArray[<<row, col>>] = currentPlayer
        IN r.currentPlayer =
               IF stays THEN Opponent(currentPlayer) ELSE currentPlayer

\* No call sets gameOver: passMove, the only method that assigns TRUE to it,
\* ends at the read of consecutivePasses before it gets there.
GameNeverOver == ~gameOver /\ consecutivePasses = <<>>

\* The maximal 4-connected set of empty cells that holds the empty cell p.
EmptyRegion(b, p) == Closure(b, None, {p})

\* The colours of the stones next to a cell of R.
BorderColors(b, R) ==
    {b[q] : q \in {x \in Cells : b[x] # None /\ \E y \in R : Adjacent(x, y)}}

\* The empty cells whose region has stones of `color` next to it and no
\* stone of the other colour.
TerritoryCells(b, color) ==
    {p \in Cells : b[p] = None /\ BorderColors(b, EmptyRegion(b, p)) = {color}}

\* C11: For every grid, the territory computation gives Black (White) the
\* total size of the maximal 4-connected empty regions whose adjacent stones
\* are all Black (all White); a region next to both colours or to no stone
\* adds to neither total.
C11_TerritoryByRegion ==
    LET t == _computeTerritory(Self)
    IN /\ t.blackTerritory = Cardinality(TerritoryCells(boardArray, "B"))
       /\ t.whiteTerritory = Cardinality(TerritoryCells(boardArray, "W"))
       /\ t.out = << <<"territoryUpdated", t.blackTerritory, t.whiteTerritory>> >>

\* A grid with a region only Black borders, a region only White borders and
\* a region both border.
C11_Witness ==
    /\ TerritoryCells(boardArray, "B") # {}
    /\ TerritoryCells(boardArray, "W") # {}
    /\ \E p \in Cells : /\ boardArray[p] = None
                        /\ BorderColors(boardArray, EmptyRegion(boardArray, p))
                               = {"B", "W"}
    /\ _computeTerritory(Self).blackTerritory > 0

\* The accepted placements made since the constructor or the last reset.
AcceptedPlacements == Len(positions) - 1

\* C12: In every reachable state, the number of accepted placements made
\* since the last reset minus the number of stones captured so far
\* (blackCaptures + whiteCaptures) is the number of non-empty cells.
C12_StonesPlacedMinusCaptured ==
    AcceptedPlacements - (blackCaptures + whiteCaptures)
        = Cardinality({p \in Cells : boardArray[p] # None})

\* C13: resetGame called in any reachable state yields the state of a
\* freshly started game: empty grid, Black to move, both capture counters
\* and both territory values 0, pass count cleared to 0, gameOver false and
\* an empty history; a single pass after the reset completes and does not
\* end the game.
C13_ResetIsFreshGame ==
    LET r == resetGame(Self)
        pass == passMove(Then(r))
    IN /\ r.boardArray = EmptyBoard
       /\ r.currentPlayer = "B"
       /\ r.blackCaptures = 0 /\ r.whiteCaptures = 0
       /\ r.blackTerritory = 0 /\ r.whiteTerritory = 0
       /\ r.consecutivePasses = <<0>>
       /\ ~r.gameOver
       /\ r.previousBoardStates = <<>>
       /\ pass.outcome = "passed" /\ ~pass.gameOver

\* What resetGame does establish: every field it assigns.
ResetAssignedFields ==
    LET r == resetGame(Self)
    IN /\ r.boardArray = EmptyBoard
       /\ r.currentPlayer = "B"
       /\ r.blackCaptures = 0 /\ r.whiteCaptures = 0
       /\ r.blackTerritory = 0 /\ r.whiteTerritory = 0
       /\ ~r.gameOver
       /\ r.previousBoardStates = <<>>

\* The gameOver messages among the signals a call emitted.
GameOverMessages(s) ==
    [i \in {j \in 1 .. Len(s.out) : s.out[j][1] = "gameOver"} |-> s.out[i][2]]

\* The message names the winner by the scores of the state s.
NamesWinner(msg, s) ==
    LET blackScore == s.blackTerritory + s.blackCaptures
        whiteScore == s.whiteTerritory + s.whiteCaptures
    IN /\ (msg[1] = "Game Over! Black wins") <=> (blackScore > whiteScore)
       /\ (msg[1] = "Game Over! White wins") <=> (whiteScore > blackScore)
       /\ (msg[1] = "Game Over! It's a tie") <=> (blackScore = whiteScore)
       /\ {msg[2], msg[3]} = {blackScore, whiteScore}

\* C14: When the game ends, that is at the second of two passes, the
\* gameOver message names Black as winner exactly when blackTerritory +
\* blackCaptures > whiteTerritory + whiteCaptures, White exactly when the
\* reverse holds and a tie exactly when the scores are equal, and it is
\* emitted exactly once per game: passes after the end emit none.
C14_FinalResultOnce ==
    ~gameOver =>
        LET first == passMove(Self)
            second == passMove(Then(first))
            third == passMove(Then(second))
            sent == GameOverMessages(second)
        IN /\ DOMAIN GameOverMessages(first) = {}
           /\ Cardinality(DOMAIN sent) = 1
           /\ \A i \in DOMAIN sent : NamesWinner(sent[i], second)
           /\ DOMAIN GameOverMessages(third) = {}

\* The end-of-game steps of passMove (lines 153-157), applied to the state:
\* the one message they emit names the winner by the scores.
FinalResultNamesWinner ==
    LET e == _emitFinalResult(_computeTerritory([Self EXCEPT !.gameOver = TRUE]))
        sent == GameOverMessages(e)
    IN /\ Cardinality(DOMAIN sent) = 1
       /\ \A i \in DOMAIN sent : NamesWinner(sent[i], e)

\* C15: Positional superko: within one game the grid resulting from an
\* accepted placement differs from every grid that resulted from an earlier
\* accepted placement and from the initial empty grid, however many moves
\* lie between the two.
C15_NoGridRecurs ==
    \A i, j \in 1 .. Len(positions) : i # j => positions[i] # positions[j]

\* Every entry of the sequence a is in b, at the same place.
IsPrefix(a, b) == Len(a) <= Len(b) /\ SubSeq(b, 1, Len(a)) = a

\* C16: The history of board states never loses an entry during a game:
\* after any handleMove or passMove call, accepted or rejected, every entry
\* stored before the call is still stored, so the history becomes empty only
\* through resetGame.
C16_HistoryKeepsEntries ==
    /\ \A row \in MoveRows, col \in MoveCols :
           IsPrefix(previousBoardStates,
                    handleMove(Self, row, col).previousBoardStates)
    /\ IsPrefix(previousBoardStates, passMove(Self).previousBoardStates)

\* The history holds entries, and among the calls made on it are an accepted
\* placement that recreates the grid before the opponent's last move (the
\* case the branch with the pop is written for), a placement refused as
\* suicide and one refused on an occupied cell.
C16_Witness ==
    /\ Len(previousBoardStates) >= 2
    /\ \E p \in Playable :
           /\ Resulting(p) = beforeLastMove
           /\ Move(p).outcome = "accepted"
           /\ Len(Move(p).previousBoardStates) = Len(previousBoardStates) + 1
    /\ \E p \in Playable : Move(p).outcome = "suicide"
    /\ \E p \in Cells : Move(p).outcome = "occupied"

\* The outcome the rules give the command handleMove(row, col).
OutcomeKind(row, col) ==
    LET p == <<row, col>>
    IN IF gameOver THEN "game over"
       ELSE IF p \notin Cells THEN "out of bounds"
       ELSE IF boardArray[p] # None THEN "occupied"
       ELSE IF IsSuicidePlacement(p) THEN "suicide"
       ELSE IF Len(positions) >= 2 /\ Resulting(p) = beforeLastMove THEN "ko"
       ELSE "accepted"

\* C17: The returned value of handleMove identifies the outcome: an accepted
\* command and each kind of rejection (out of bounds, occupied, suicide, ko,
\* game over) return distinguishable values, so that two commands with
\* different outcomes never return the same value.
C17_ResultTellsOutcome ==
    \A r1, r2 \in MoveRows, c1, c2 \in MoveCols :
        OutcomeKind(r1, c1) # OutcomeKind(r2, c2) =>
            handleMove(Self, r1, c1).ret # handleMove(Self, r2, c2).ret

\* The adjacencies between a stone of G and an empty cell.
LibertyAdjacencies(b, G) ==
    {e \in G \X Cells : Adjacent(e[1], e[2]) /\ b[e[2]] = None}

\* The group computation on the grid b from the stone at p is right.
GroupComputed(b, p) ==
    LET g == _get_group_and_liberties(b, p[1], p[2], b[p])
        G == GroupOf(b, p)
    IN /\ Range(g.group) = G
       /\ Len(g.group) = Cardinality(G)
       /\ g.liberties = Cardinality(LibertyAdjacencies(b, G))
       /\ (g.liberties = 0) <=> ~HasLiberty(b, G)

\* The grids the group computation is called on: the grid of the state and
\* the grid with the mover's stone put on an empty cell, captures not yet
\* made.
GridsScanned == {boardArray} \cup {Placed(p) : p \in Playable}

\* C18: For every grid and every origin cell holding colour c, the group
\* computation returns the maximal set of cells of colour c 4-connected to
\* the origin, each cell once, and a liberty count that is the number of
\* stone/empty-neighbour adjacencies of the group, hence zero if and only if
\* no cell of the group has an empty 4-neighbour; opposite-colour and
\* off-board neighbours contribute nothing.
C18_GroupAndLiberties ==
    \A b \in GridsScanned :
        \A p \in Cells : b[p] # None => GroupComputed(b, p)

\* Among the grids are one with a group of two or more stones that has no
\* liberty and one with a group whose liberty count is larger than the
\* number of its empty neighbour cells, a liberty being shared by two of
\* its stones; the group has a neighbour of the other colour.
C18_Witness ==
    /\ \E b \in GridsScanned, p \in Cells :
           /\ b[p] # None
           /\ Cardinality(GroupOf(b, p)) >= 2
           /\ _get_group_and_liberties(b, p[1], p[2], b[p]).liberties = 0
    /\ \E b \in GridsScanned, p \in Cells :
           /\ b[p] # None
           /\ _get_group_and_liberties(b, p[1], p[2], b[p]).liberties
                  > Cardinality({q \in Cells : b[q] = None
                                   /\ \E x \in GroupOf(b, p) : Adjacent(x, q)})
           /\ \E x \in GroupOf(b, p), q \in Cells :
                  Adjacent(x, q) /\ b[q] = Opponent(b[p])

\* C19: After every accepted placement, the grid that results from it
\* (after captures) is contained in the stored history.
C19_ResultInHistory ==
    \A p \in Playable :
        LET r == Move(p)
        IN r.boardArray[p] = currentPlayer =>
               r.boardArray \in Range(r.previousBoardStates)

\* C19, amended: Every placement that passes the preconditions, accepted or
\* refused as suicide, appends to the history the grid as it was before the
\* stone was placed and nothing else; so the grid that results from an
\* accepted placement is stored by the next such placement, and every grid
\* that resulted from an accepted placement before the latest one is in the
\* history.
C19_ResultStoredByNextPlacement ==
    /\ \A p \in Playable :
           Move(p).previousBoardStates = Append(previousBoardStates, boardArray)
    /\ \A i \in 1 .. Len(positions) - 1 :
           positions[i] \in Range(previousBoardStates)

\* After two or more accepted placements, an accepted placement that
\* captures and whose resulting grid is not in the history it leaves, with a
\* next placement that is accepted and a next placement that is refused as
\* suicide.
C19_Witness ==
    \E p \in Playable :
        LET r == Move(p)
        IN /\ Len(positions) >= 3
           /\ r.outcome = "accepted"
           /\ Taken(p) # {}
           /\ r.boardArray \notin Range(r.previousBoardStates)
           /\ \E q \in Cells : /\ r.boardArray[q] = None
                               /\ handleMove(Then(r), q[1], q[2]).outcome = "suicide"
           /\ \E q \in Cells : /\ r.boardArray[q] = None
                               /\ handleMove(Then(r), q[1], q[2]).outcome = "accepted"

\* The name the signals carry for a player.
PlayerName(player) == IF player = "B" THEN "Black" ELSE "White"

\* The signals of one kind among those a call emitted, in order.
Emitted(s, kind) == SelectSeq(s.out, LAMBDA e : e[1] = kind)

\* C20: An accepted placement emits currentPlayerChanged carrying the new
\* current player, and emits capturesUpdated if and only if it captured at
\* least one stone, every emitted pair being the capture counters after the
\* move; a rejected placement emits no event.
C20_PlacementEvents ==
    \A row \in MoveRows, col \in MoveCols :
        LET r == handleMove(Self, row, col)
            p == <<row, col>>
            accepted == p \in Playable /\ r.boardArray[p] = currentPlayer
        IN IF accepted
           THEN /\ Emitted(r, "currentPlayerChanged")
                       = << <<"currentPlayerChanged", PlayerName(r.currentPlayer)>> >>
                /\ (Emitted(r, "capturesUpdated") # <<>>) <=> (Taken(p) # {})
                /\ \A i \in 1 .. Len(Emitted(r, "capturesUpdated")) :
                       Emitted(r, "capturesUpdated")[i]
                           = <<"capturesUpdated", r.blackCaptures, r.whiteCaptures>>
           ELSE r.out = <<>>

\* The parts of C20 apart from the emitted pair: the player event, the
\* presence of the capture event and the silence of rejected placements.
PlacementEventsPresent ==
    \A row \in MoveRows, col \in MoveCols :
        LET r == handleMove(Self, row, col)
            p == <<row, col>>
            accepted == p \in Playable /\ r.boardArray[p] = currentPlayer
        IN IF accepted
           THEN /\ Emitted(r, "currentPlayerChanged")
                       = << <<"currentPlayerChanged", PlayerName(r.currentPlayer)>> >>
                /\ (Emitted(r, "capturesUpdated") # <<>>) <=> (Taken(p) # {})
           ELSE r.out = <<>>

\* The empty cells next to a stone of G.
LibertiesOf(b, G) == {q \in Cells : b[q] = None /\ \E x \in G : Adjacent(x, q)}

\* C22: In every reachable state, every group of stones on the grid has at
\* least one liberty: no sequence of placements, passes and resets leaves a
\* stone of either colour whose group has no empty 4-neighbour.
C22_EveryGroupHasLiberty ==
    \A p \in Cells :
        boardArray[p] # None => HasLiberty(boardArray, GroupOf(boardArray, p))

\* After a capture, stones of both colours are on the grid, a group of two
\* or more stones is down to its last liberty, and a placement on that
\* liberty is one the engine refuses as suicide.
C22_Witness ==
    /\ blackCaptures + whiteCaptures > 0
    /\ Stones(boardArray, "B") # {} /\ Stones(boardArray, "W") # {}
    /\ \E p \in Cells :
           /\ boardArray[p] = currentPlayer
           /\ Cardinality(GroupOf(boardArray, p)) >= 2
           /\ Cardinality(LibertiesOf(boardArray, GroupOf(boardArray, p))) = 1
           /\ \E q \in LibertiesOf(boardArray, GroupOf(boardArray, p)) :
                  Move(q).outcome = "suicide"

----------------------------------------------------------------------------
\* The widget, under BoardSpec.

\* C21: Board.resetGame (the Reset button) starts a playable new game from
\* any state, also after the countdown has run down to 0 and after the
\* game-over signal: afterwards the board is started, so that clicks and
\* passes are forwarded to the engine, the countdown is at 60 and the timer
\* is running.
C21_ResetRestartsBoard ==
    LET b == Board_resetGame(BoardSelf)
    IN /\ b.isStarted
       /\ b.counter = CountdownStart
       /\ b.timerActive
       /\ b.gameLogic.boardArray = EmptyBoard

\* What the Reset button does establish: the engine is reset and the
\* countdown is at 60; isStarted and the timer are as they were.
ResetLeavesTimerAsItWas ==
    LET b == Board_resetGame(BoardSelf)
    IN /\ b.counter = CountdownStart
       /\ b.gameLogic.boardArray = EmptyBoard
       /\ b.isStarted = isStarted
       /\ b.timerActive = timerActive

\* The board is never stopped: onGameOver, the only place that clears
\* isStarted, runs on a signal the engine never emits.
BoardAlwaysStarted == isStarted

\* C23: The values the Board mirrors never go stale: after every completed
\* resetGame, handleMove or passMove, the current player, the capture pair
\* and the territory pair the engine's signals last delivered to the Board
\* are the engine's own currentPlayer, blackCaptures/whiteCaptures and
\* blackTerritory/whiteTerritory.
C23_MirrorIsCurrent ==
    /\ board_currentPlayer = PlayerName(currentPlayer)
    /\ board_blackCaptures = blackCaptures
    /\ board_whiteCaptures = whiteCaptures
    /\ board_blackTerritory = blackTerritory
    /\ board_whiteTerritory = whiteTerritory

\* A click has just captured: the engine delivered two capture pairs, the
\* territory pair and the new player, and the Board shows White to move
\* and Black's captures.
C23_Witness ==
    /\ board_blackCaptures > 0
    /\ board_whiteCaptures = 0
    /\ board_currentPlayer = "White"
    /\ currentPlayer = "W"
    /\ Stones(boardArray, "W") = {}

====
